---- MODULE Spec2Model ----
(***************************************************************************)
(* A model of openweathermap_lib: the location resolver (LocationClient), *)
(* the weather resolver (WeatherClient), the validating constructors of   *)
(* the weather records and the host-bridge adapter get_weather_data.      *)
(*                                                                         *)
(* Seven specifications share the pure operators:                          *)
(*   Spec        one invocation of get_weather_data, step by step between  *)
(*               its await points, against an arbitrary HTTP environment;  *)
(*   SpecClient  a LocationClient and a WeatherClient used directly;       *)
(*   SpecSetters a LocationClient reconfigured between its lookups;        *)
(*   SpecCoord   the validating constructor Coord::new on f64 inputs;      *)
(*   SpecWind    the validating constructor Wind::new;                     *)
(*   SpecMain    the validating constructor Main::new;                     *)
(*   SpecDisplay the temperature text of detailed_display.                 *)
(***************************************************************************)
EXTENDS FiniteSets, Integers, Sequences, TLC

VARIABLES
    pc,          \* get_weather_data: the await point the invocation is at
    reqText,     \* get_weather_data: the request text it was given
    request,     \* the parsed WeatherRequestWasm
    location,    \* fetch_weather_internal: the `location` local
    locSent,     \* GET requests the LocationClient has sent, in order
    wxSent,      \* GET requests the WeatherClient has sent, in order
    weather,     \* fetch_weather_internal: the `weather_response` local
    result,      \* what get_weather_data returned to the host
    lc,          \* SpecClient: the LocationClient's fields
    lcPc,        \* SpecClient: where the current get_location call is
    lcSent,      \* SpecClient: requests sent by the current call
    lcDecoded,   \* SpecClient: response bodies the current call decoded
    lcResp,      \* SpecClient: what the server answered the current call
    lcResult,    \* SpecClient: the Result the last get_location returned
    lcPrev,      \* SpecClient: the Result the get_location before that returned
    lastSet,     \* SpecSetters: the last setter call, its field and argument
    wc,          \* SpecClient: the WeatherClient's fields
    wcPc,        \* SpecClient: where the current get_current_weather call is
    wcSent,      \* SpecClient: requests sent by the current call
    wcDecoded,   \* SpecClient: response bodies the current call decoded
    wcResp,      \* SpecClient: what the server answered the current call
    wcResult,    \* SpecClient: the Result the last get_current_weather returned
    coordLon,    \* SpecCoord: the lon argument
    coordLat,    \* SpecCoord: the lat argument
    coordRes,    \* SpecCoord: what Coord::new returned
    windSpeed,   \* SpecWind: the speed argument
    windDeg,     \* SpecWind: the deg argument
    windGust,    \* SpecWind: the gust argument
    windRes,     \* SpecWind: what Wind::new returned
    mainArgs,    \* SpecMain: the eight arguments of Main::new
    mainRes,     \* SpecMain: what Main::new returned
    dispTemp,    \* SpecDisplay: main.temp of the record rendered
    dispUnits,   \* SpecDisplay: the units argument
    dispRes      \* SpecDisplay: the temp_display text detailed_display built

bridgeVars == <<pc, reqText, request, location, locSent, wxSent, weather, result>>
clientVars == <<lc, lcPc, lcSent, lcDecoded, lcResp, lcResult, lcPrev, lastSet,
                wc, wcPc, wcSent, wcDecoded, wcResp, wcResult>>
valueVars  == <<windSpeed, windDeg, windGust, windRes, mainArgs, mainRes,
                dispTemp, dispUnits, dispRes>>
coordVars  == <<coordLon, coordLat, coordRes, valueVars>>
vars       == <<bridgeVars, clientVars, coordVars>>

(***************************************************************************)
(* Values.                                                                 *)
(***************************************************************************)

\* Result<T, E>
Ok(v)  == [st |-> "ok", val |-> v]
Err(e) == [st |-> "err", err |-> e]
None   == [st |-> "none"]

\* f64: a finite value is kept in hundredths (fixed point), beside the IEEE
\* specials NaN and the two infinities.
Scale    == 10 * 10
Fin(h)   == [k |-> "fin", v |-> h]
NaN      == [k |-> "nan", v |-> 0]
PosInf   == [k |-> "inf", v |-> 1]
NegInf   == [k |-> "inf", v |-> -1]
Whole(n) == Fin(n * Scale)

\* IEEE comparison: every comparison with NaN is false.
FLt(a, b) ==
    /\ a.k # "nan"
    /\ b.k # "nan"
    /\ \/ a.k = "fin" /\ b.k = "fin" /\ a.v < b.v
       \/ a.k = "inf" /\ a.v < 0 /\ ~(b.k = "inf" /\ b.v < 0)
       \/ b.k = "inf" /\ b.v > 0 /\ ~(a.k = "inf" /\ a.v > 0)
FGt(a, b) == FLt(b, a)

\* A JSON document, as the tree it denotes. A text that is no JSON is JBad.
JStr(s)   == [t |-> "str", v |-> s]
JInt(n)   == [t |-> "int", v |-> n]
JFloat(h) == [t |-> "float", v |-> h]
JObj(o)   == [t |-> "obj", v |-> o]
JArr(s)   == [t |-> "arr", v |-> s]
JNull     == [t |-> "null"]
JBad      == [t |-> "bad"]

Has(j, key)   == j.t = "obj" /\ key \in DOMAIN j.v
IsStr(j, key) == Has(j, key) /\ j.v[key].t = "str"
IsNum(j, key) == Has(j, key) /\ j.v[key].t \in {"int", "float"}
IsInt(j, key) == Has(j, key) /\ j.v[key].t = "int"
\* serde's f64 takes an integer or a floating literal
AsF64(j) == IF j.t = "int" THEN Whole(j.v) ELSE Fin(j.v)
\* serde_json writes a finite f64 as a number and a non-finite one as null
SerF64(x) == IF x.k = "fin" THEN JFloat(x.v) ELSE JNull

\* Digits of a finite f64's fraction, trailing zero dropped (hundredths).
FracText(fr) ==
    IF fr % 10 = 0 THEN ToString(fr \div 10)
    ELSE ToString(fr \div 10) \o ToString(fr % 10)
Abs(n) == IF n < 0 THEN -n ELSE n
\* f64's Display (to_string): 43.0 is "43", 42.42 is "42.42"
F64Display(x) ==
    IF x.k = "nan" THEN "NaN"
    ELSE IF x.k = "inf" THEN (IF x.v < 0 THEN "-inf" ELSE "inf")
    ELSE (IF x.v < 0 THEN "-" ELSE "")
         \o ToString(Abs(x.v) \div Scale)
         \o (IF Abs(x.v) % Scale = 0 THEN "" ELSE "." \o FracText(Abs(x.v) % Scale))
\* serde_json's number text: 43.0 is "43.0"
F64Json(x) ==
    IF x.k # "fin" THEN "null"
    ELSE (IF x.v < 0 THEN "-" ELSE "")
         \o ToString(Abs(x.v) \div Scale) \o "." \o FracText(Abs(x.v) % Scale)

(***************************************************************************)
(* The HTTP exchange, common to both resolvers.                            *)
(***************************************************************************)

GEOCODING_API_BASE_URL == "https://api.openweathermap.org/geo/1.0/zip"
WEATHER_API_BASE_URL   == "https://api.openweathermap.org/data/2.5/weather"

\* The statuses the server answers with in this model.
Statuses == {200, 204, 404, 500}
\* is_success without its upper end.
is_success_unbounded(status) == 200 <= status
\* StatusCode::is_success: 200..=299
is_success(status) == 200 <= status /\ status < 300
\* StatusCode's Display: the code and its canonical reason
StatusText(status) ==
    CASE status = 200 -> "200 OK"
      [] status = 204 -> "204 No Content"
      [] status = 404 -> "404 Not Found"
      [] status = 500 -> "500 Internal Server Error"
\* format!("API request failed with status: {}", response.status())
StatusError(status) == "API request failed with status: " \o StatusText(status)
\* What `send().await?` fails with when the exchange does not complete.
TransportErrors == {"error sending request", "timeout"}
\* What `response.json().await?` fails with when the body is not the record.
DecodeError == "error decoding response body"

(***************************************************************************)
(* location::Location and LocationClient.                                  *)
(***************************************************************************)

Loc(zip, name, lat, lon, country) ==
    [zip |-> zip, name |-> name, lat |-> lat, lon |-> lon, country |-> country]

\* #[derive(Deserialize)] for Location: all five fields are required.
LocationShape(body) ==
    /\ IsStr(body, "zip")
    /\ IsStr(body, "name")
    /\ IsNum(body, "lat")
    /\ IsNum(body, "lon")
    /\ IsStr(body, "country")
\* DecodeLocation with lat and lon read from each other's key.
DecodeLocationSwapped(body) ==
    IF LocationShape(body)
    THEN Ok(Loc(body.v.zip.v, body.v.name.v, AsF64(body.v.lon),
                AsF64(body.v.lat), body.v.country.v))
    ELSE Err(DecodeError)
DecodeLocation(body) ==
    IF LocationShape(body)
    THEN Ok(Loc(body.v.zip.v, body.v.name.v, AsF64(body.v.lat),
                AsF64(body.v.lon), body.v.country.v))
    ELSE Err(DecodeError)
\* #[derive(Serialize)] for Location
SerLocation(l) ==
    JObj([zip |-> JStr(l.zip), name |-> JStr(l.name), lat |-> SerF64(l.lat),
          lon |-> SerF64(l.lon), country |-> JStr(l.country)])

\* LocationClient::new
NewLocationClient(zip, country, api_key) ==
    [zip |-> zip, country |-> country, api_key |-> api_key]
\* get_location, to its first await: the GET it sends
LocationRequest(c) ==
    [url   |-> GEOCODING_API_BASE_URL,
     query |-> <<<<"zip", c.zip \o "," \o c.country>>, <<"appid", c.api_key>>>>]
\* get_location, after the response head: Err on a non-success status
LocationStatusCheck(status) ==
    IF ~is_success(status) THEN Err(StatusError(status)) ELSE None
\* get_location, after the body: Ok(response.json().await?)
LocationFromBody(body) == DecodeLocation(body)

\* The bodies the geocoding endpoint answers with in this model.
LocBodies == <<
    JObj([zip |-> JStr("N7L"), name |-> JStr("Chatham"), lat |-> JFloat(4365),
          lon |-> JFloat(-7938), country |-> JStr("CA")]),
    JObj([zip |-> JStr("90210"), name |-> JStr("Beverly Hills"), lat |-> JInt(34),
          lon |-> JFloat(-11841), country |-> JStr("US"), extra |-> JNull]),
    JObj([zip |-> JStr("N7L"), name |-> JStr("Chatham"), lat |-> JFloat(4365),
          country |-> JStr("CA")]),
    JObj([zip |-> JInt(90210), name |-> JStr("Beverly Hills"), lat |-> JInt(34),
          lon |-> JFloat(-11841), country |-> JStr("US")]),
    JObj([cod |-> JStr("404"), message |-> JStr("not found")]),
    JBad >>

(***************************************************************************)
(* weather::types: the records of a WeatherResponse, their derived         *)
(* Deserialize (which never runs the validating constructors) and          *)
(* Serialize.                                                              *)
(***************************************************************************)

\* Option<T>
Some(x) == [some |-> TRUE, v |-> x]
Nothing == [some |-> FALSE]
\* An Option field takes a missing key or null as None.
Absent(j, key) == ~Has(j, key) \/ j.v[key].t = "null"
OptNum(j, key) == Absent(j, key) \/ IsNum(j, key)
OptInt(j, key) == Absent(j, key) \/ IsInt(j, key)
GetOptF64(j, key) == IF Absent(j, key) THEN Nothing ELSE Some(AsF64(j.v[key]))
GetOptInt(j, key) == IF Absent(j, key) THEN Nothing ELSE Some(j.v[key].v)

CoordShape(j) == j.t = "obj" /\ IsNum(j, "lon") /\ IsNum(j, "lat")
ConditionShape(j) ==
    /\ j.t = "obj"
    /\ IsInt(j, "id")
    /\ IsStr(j, "main")
    /\ IsStr(j, "description")
    /\ IsStr(j, "icon")
MainShape(j) ==
    /\ j.t = "obj"
    /\ \A key \in {"temp", "feels_like", "temp_min", "temp_max"} : OptNum(j, key)
    /\ \A key \in {"pressure", "humidity", "sea_level", "grnd_level"} : OptInt(j, key)
WindShape(j) == j.t = "obj" /\ IsNum(j, "speed") /\ IsInt(j, "deg") /\ OptNum(j, "gust")
CloudsShape(j) == j.t = "obj" /\ IsInt(j, "all")
\* Sys: `type` (sys_type) and `id` are plain i32 fields, so both are required
SysShape(j) ==
    /\ j.t = "obj"
    /\ IsInt(j, "type")
    /\ IsInt(j, "id")
    /\ IsStr(j, "country")
    /\ IsInt(j, "sunrise")
    /\ IsInt(j, "sunset")
WeatherResponseShape(j) ==
    /\ j.t = "obj"
    /\ Has(j, "coord") /\ CoordShape(j.v.coord)
    /\ Has(j, "weather") /\ j.v.weather.t = "arr"
    /\ \A i \in 1..Len(j.v.weather.v) : ConditionShape(j.v.weather.v[i])
    /\ IsStr(j, "base")
    /\ Has(j, "main") /\ MainShape(j.v.main)
    /\ IsInt(j, "visibility")
    /\ Has(j, "wind") /\ WindShape(j.v.wind)
    /\ Has(j, "clouds") /\ CloudsShape(j.v.clouds)
    /\ IsInt(j, "dt")
    /\ Has(j, "sys") /\ SysShape(j.v.sys)
    /\ IsInt(j, "timezone")
    /\ IsInt(j, "id")
    /\ IsStr(j, "name")
    /\ IsInt(j, "cod")

DecCoord(j) == [lon |-> AsF64(j.v.lon), lat |-> AsF64(j.v.lat)]
DecCondition(j) ==
    [id |-> j.v.id.v, main |-> j.v.main.v, description |-> j.v.description.v,
     icon |-> j.v.icon.v]
DecMain(j) ==
    [temp |-> GetOptF64(j, "temp"), feels_like |-> GetOptF64(j, "feels_like"),
     temp_min |-> GetOptF64(j, "temp_min"), temp_max |-> GetOptF64(j, "temp_max"),
     pressure |-> GetOptInt(j, "pressure"), humidity |-> GetOptInt(j, "humidity"),
     sea_level |-> GetOptInt(j, "sea_level"), grnd_level |-> GetOptInt(j, "grnd_level")]
DecWind(j) ==
    [speed |-> AsF64(j.v.speed), deg |-> j.v.deg.v, gust |-> GetOptF64(j, "gust")]
DecClouds(j) == [all |-> j.v.all.v]
DecSys(j) ==
    [sys_type |-> j.v.type.v, id |-> j.v.id.v, country |-> j.v.country.v,
     sunrise |-> j.v.sunrise.v, sunset |-> j.v.sunset.v]
DecWeatherResponse(j) ==
    [coord |-> DecCoord(j.v.coord),
     weather |-> [i \in 1..Len(j.v.weather.v) |-> DecCondition(j.v.weather.v[i])],
     base |-> j.v.base.v,
     main |-> DecMain(j.v.main),
     visibility |-> j.v.visibility.v,
     wind |-> DecWind(j.v.wind),
     clouds |-> DecClouds(j.v.clouds),
     dt |-> j.v.dt.v,
     sys |-> DecSys(j.v.sys),
     timezone |-> j.v.timezone.v,
     id |-> j.v.id.v,
     name |-> j.v.name.v,
     cod |-> j.v.cod.v]
\* response.json::<WeatherResponse>()
DecodeWeather(body) ==
    IF WeatherResponseShape(body) THEN Ok(DecWeatherResponse(body)) ELSE Err(DecodeError)

\* serde_json::to_string(&weather_response): the text, fields in declaration order
Q == "\""
TStr(s) == Q \o s \o Q
TKey(key) == Q \o key \o Q \o ":"
TOptF64(o) == IF o.some THEN F64Json(o.v) ELSE "null"
TOptInt(o) == IF o.some THEN ToString(o.v) ELSE "null"
CoordText(c) ==
    "{" \o TKey("lon") \o F64Json(c.lon) \o "," \o TKey("lat") \o F64Json(c.lat) \o "}"
ConditionText(w) ==
    "{" \o TKey("id") \o ToString(w.id) \o "," \o TKey("main") \o TStr(w.main)
        \o "," \o TKey("description") \o TStr(w.description)
        \o "," \o TKey("icon") \o TStr(w.icon) \o "}"
RECURSIVE ConditionsText(_)
ConditionsText(ws) ==
    IF Len(ws) = 0 THEN ""
    ELSE IF Len(ws) = 1 THEN ConditionText(ws[1])
    ELSE ConditionText(ws[1]) \o "," \o ConditionsText(Tail(ws))
MainText(m) ==
    "{" \o TKey("temp") \o TOptF64(m.temp)
        \o "," \o TKey("feels_like") \o TOptF64(m.feels_like)
        \o "," \o TKey("temp_min") \o TOptF64(m.temp_min)
        \o "," \o TKey("temp_max") \o TOptF64(m.temp_max)
        \o "," \o TKey("pressure") \o TOptInt(m.pressure)
        \o "," \o TKey("humidity") \o TOptInt(m.humidity)
        \o "," \o TKey("sea_level") \o TOptInt(m.sea_level)
        \o "," \o TKey("grnd_level") \o TOptInt(m.grnd_level) \o "}"
WindText(w) ==
    "{" \o TKey("speed") \o F64Json(w.speed) \o "," \o TKey("deg") \o ToString(w.deg)
        \o "," \o TKey("gust") \o TOptF64(w.gust) \o "}"
CloudsText(c) == "{" \o TKey("all") \o ToString(c.all) \o "}"
SysText(y) ==
    "{" \o TKey("type") \o ToString(y.sys_type) \o "," \o TKey("id") \o ToString(y.id)
        \o "," \o TKey("country") \o TStr(y.country)
        \o "," \o TKey("sunrise") \o ToString(y.sunrise)
        \o "," \o TKey("sunset") \o ToString(y.sunset) \o "}"
WeatherResponseText(w) ==
    "{" \o TKey("coord") \o CoordText(w.coord)
        \o "," \o TKey("weather") \o "[" \o ConditionsText(w.weather) \o "]"
        \o "," \o TKey("base") \o TStr(w.base)
        \o "," \o TKey("main") \o MainText(w.main)
        \o "," \o TKey("visibility") \o ToString(w.visibility)
        \o "," \o TKey("wind") \o WindText(w.wind)
        \o "," \o TKey("clouds") \o CloudsText(w.clouds)
        \o "," \o TKey("dt") \o ToString(w.dt)
        \o "," \o TKey("sys") \o SysText(w.sys)
        \o "," \o TKey("timezone") \o ToString(w.timezone)
        \o "," \o TKey("id") \o ToString(w.id)
        \o "," \o TKey("name") \o TStr(w.name)
        \o "," \o TKey("cod") \o ToString(w.cod) \o "}"

(***************************************************************************)
(* weather::client: WeatherClient.                                         *)
(***************************************************************************)

\* WeatherClient::new
NewWeatherClient(loc, units, api_key) ==
    [location |-> loc, units |-> units, api_key |-> api_key]
\* WeatherRequest with lat and lon taken from each other's field.
WeatherRequestSwapped(c) ==
    [url   |-> WEATHER_API_BASE_URL,
     query |-> << <<"lat", F64Display(c.location.lon)>>,
                  <<"lon", F64Display(c.location.lat)>>,
                  <<"units", c.units>>,
                  <<"appid", c.api_key>> >>]
\* get_current_weather, to its first await: the GET it sends
WeatherRequest(c) ==
    [url   |-> WEATHER_API_BASE_URL,
     query |-> << <<"lat", F64Display(c.location.lat)>>,
                  <<"lon", F64Display(c.location.lon)>>,
                  <<"units", c.units>>,
                  <<"appid", c.api_key>> >>]
\* get_current_weather, after the response head
WeatherStatusCheck(status) ==
    IF ~is_success(status) THEN Err(StatusError(status)) ELSE None
\* get_current_weather, after the body: Ok(response.json().await?)
WeatherFromBody(body) == DecodeWeather(body)

\* The bodies the current-conditions endpoint answers with in this model.
SampleConditions == <<
    JObj([id |-> JInt(801), main |-> JStr("Clouds"), description |-> JStr("few clouds"),
          icon |-> JStr("02d")]) >>
SampleMain(temp) ==
    JObj([temp |-> temp, feels_like |-> JFloat(2932), temp_min |-> JFloat(2777),
          temp_max |-> JFloat(2910), pressure |-> JInt(1014), humidity |-> JInt(62),
          sea_level |-> JInt(1014), grnd_level |-> JInt(993)])
SampleSys ==
    JObj([type |-> JInt(2), id |-> JInt(267607), country |-> JStr("CA"),
          sunrise |-> JInt(1752401008), sunset |-> JInt(1752455116)])
\* sys records as the endpoint sends them when it leaves out type, id or both
SysNoType ==
    JObj([id |-> JInt(267607), country |-> JStr("CA"),
          sunrise |-> JInt(1752401008), sunset |-> JInt(1752455116)])
SysNoId ==
    JObj([type |-> JInt(2), country |-> JStr("CA"),
          sunrise |-> JInt(1752401008), sunset |-> JInt(1752455116)])
SysNoTypeNoId ==
    JObj([country |-> JStr("CA"),
          sunrise |-> JInt(1752401008), sunset |-> JInt(1752455116)])
SampleWeather(conditions, main, sys) ==
    JObj([coord |-> JObj([lon |-> JFloat(-8220), lat |-> JFloat(4244)]),
          weather |-> JArr(conditions),
          base |-> JStr("stations"),
          main |-> main,
          visibility |-> JInt(10000),
          wind |-> JObj([speed |-> JFloat(360), deg |-> JInt(220)]),
          clouds |-> JObj([all |-> JInt(20)]),
          dt |-> JInt(1752449935),
          sys |-> sys,
          timezone |-> JInt(-14400),
          id |-> JInt(5920450),
          name |-> JStr("Chatham-Kent"),
          cod |-> JInt(200)])
WxBodies == <<
    SampleWeather(SampleConditions, SampleMain(JFloat(2777)), SampleSys),
    SampleWeather(<< >>, SampleMain(JInt(20)), SampleSys),
    SampleWeather(SampleConditions, JObj([humidity |-> JInt(62), temp |-> JNull]), SampleSys),
    SampleWeather(SampleConditions, SampleMain(JStr("warm")), SampleSys),
    JObj([cod |-> JInt(200), name |-> JStr("Chatham-Kent")]),
    JBad,
    SampleWeather(SampleConditions, SampleMain(JFloat(2777)), SysNoType),
    SampleWeather(SampleConditions, SampleMain(JFloat(2777)), SysNoId),
    SampleWeather(SampleConditions, SampleMain(JFloat(2777)), SysNoTypeNoId) >>

(***************************************************************************)
(* The host-bridge adapter: get_weather_data and fetch_weather_internal.   *)
(***************************************************************************)

\* WeatherRequestWasm
WeatherRequestWasm(zip, country, units, api_key) ==
    [zip |-> zip, country |-> country, units |-> units, api_key |-> api_key]
\* The request as a JSON object text.
RequestObject(zip, country, units, api_key) ==
    JObj([zip |-> JStr(zip), country |-> JStr(country), units |-> JStr(units),
          api_key |-> JStr(api_key)])
Zips      == {"N7L", "90210"}
Countries == {"CA", "US"}
Units     == {"metric", "imperial", "standard"}
ApiKeys   == {"K", "K2"}
\* Request texts beside the well-formed objects: an object with an unknown
\* key, the struct written as an array, an object lacking api_key, a number
\* for units, an empty array, null and a text that is no JSON.
OddTexts == <<
    JObj([zip |-> JStr("N7L"), country |-> JStr("CA"), units |-> JStr("metric"),
          api_key |-> JStr("K"), lang |-> JStr("en")]),
    JArr(<<JStr("N7L"), JStr("CA"), JStr("metric"), JStr("K")>>),
    JObj([zip |-> JStr("N7L"), country |-> JStr("CA"), units |-> JStr("metric")]),
    JObj([zip |-> JStr("N7L"), country |-> JStr("CA"), units |-> JInt(1),
          api_key |-> JStr("K")]),
    JArr(<< >>),
    JNull,
    JBad >>

RequestFields == <<"zip", "country", "units", "api_key">>
\* serde_json's message, without its line and column
ParseErrorText(text) ==
    CASE text.t = "bad" -> "expected value"
      [] text.t = "arr" -> "invalid length or type"
      [] text.t = "obj" /\ \E i \in 1..4 : Has(text, RequestFields[i])
                                         /\ ~IsStr(text, RequestFields[i])
                        -> "invalid type"
      [] text.t = "obj" -> "missing field"
      [] OTHER          -> "invalid type"
\* serde_json::from_str::<WeatherRequestWasm>: the derived Deserialize takes a
\* map holding the four string fields (unknown keys ignored) or a sequence of
\* exactly four strings.
ParseRequest(text) ==
    IF text.t = "obj" /\ \A i \in 1..4 : IsStr(text, RequestFields[i])
    THEN Ok(WeatherRequestWasm(text.v.zip.v, text.v.country.v, text.v.units.v,
                               text.v.api_key.v))
    ELSE IF text.t = "arr" /\ Len(text.v) = 4 /\ \A i \in 1..4 : text.v[i].t = "str"
    THEN Ok(WeatherRequestWasm(text.v[1].v, text.v[2].v, text.v[3].v, text.v[4].v))
    ELSE Err(ParseErrorText(text))
\* JsValue::from_str(&format!("Invalid request: {}", e))
InvalidRequest(e) == "Invalid request: " \o e

\* WeatherResponseWasm and its derived Serialize
WeatherResponseWasm(loc, weatherText, error) ==
    [location |-> loc, weather |-> weatherText, error |-> error]
SerResponse(r) ==
    JObj([location |-> SerLocation(r.location),
          weather  |-> JStr(r.weather),
          error    |-> IF r.error.some THEN JStr(r.error.v) ELSE JNull])

\* fetch_weather_internal's three outcomes
\* LocationErrorText without its prefix.
LocationErrorBare(e) == e
LocationErrorText(e) == "Location error: " \o e
WeatherErrorText(e)  == "Weather error: " \o e
FetchLocationFailed(e) == Err(LocationErrorText(e))
\* FetchWeatherFailed with the location stage's message.
FetchWeatherFailedAsLocation(loc, e) == Err(LocationErrorText(e))
FetchWeatherFailed(loc, e) == Err(WeatherErrorText(e))
\* FetchSucceeded with the weather text left empty.
FetchSucceededNoText(loc, weather_response) ==
    Ok(WeatherResponseWasm(loc, "", Nothing))
FetchSucceeded(loc, weather_response) ==
    Ok(WeatherResponseWasm(loc, WeatherResponseText(weather_response), Nothing))

\* The placeholder Location of get_weather_data's Err arm
EmptyLocation == Loc("", "", Fin(0), Fin(0), "")
\* MatchFetched with the Err arm passed on to the host instead of folded into
\* an envelope.
MatchFetchedRaising(fetched) ==
    IF fetched.st = "ok"
    THEN Ok(SerResponse(fetched.val))
    ELSE Err(fetched.err)
\* get_weather_data's match on fetch_weather_internal's result
MatchFetched(fetched) ==
    IF fetched.st = "ok"
    THEN Ok(SerResponse(fetched.val))
    ELSE Ok(SerResponse(WeatherResponseWasm(EmptyLocation, "", Some(fetched.err))))

\* Start with the location lookup sent before the request is parsed.
StartSendingFirst(text) ==
    /\ pc = "idle"
    /\ reqText' = text
    /\ locSent' = Append(locSent, LocationRequest(NewLocationClient("", "", "")))
    /\ LET parsed == ParseRequest(text) IN
       IF parsed.st = "err"
       THEN /\ result' = Err(InvalidRequest(parsed.err))
            /\ pc' = "returned"
            /\ UNCHANGED request
       ELSE /\ request' = parsed
            /\ pc' = "location_send"
            /\ UNCHANGED result
    /\ UNCHANGED <<location, wxSent, weather, clientVars, coordVars>>
\* get_weather_data, to its first await: parse, then (inside
\* fetch_weather_internal) LocationClient::new(..).get_location() sends its GET.
Start(text) ==
    /\ pc = "idle"
    /\ reqText' = text
    /\ LET parsed == ParseRequest(text) IN
       IF parsed.st = "err"
       THEN /\ result' = Err(InvalidRequest(parsed.err))
            /\ pc' = "returned"
            /\ UNCHANGED <<request, locSent>>
       ELSE /\ request' = parsed
            /\ locSent' = Append(locSent,
                   LocationRequest(NewLocationClient(parsed.val.zip, parsed.val.country,
                                                     parsed.val.api_key)))
            /\ pc' = "location_send"
            /\ UNCHANGED result
    /\ UNCHANGED <<location, wxSent, weather, clientVars, coordVars>>
get_weather_data ==
    \/ \E zip \in Zips, country \in Countries, units \in Units, api_key \in ApiKeys :
          Start(RequestObject(zip, country, units, api_key))
    \/ \E i \in 1..Len(OddTexts) : Start(OddTexts[i])

\* The location GET does not complete: `.send().await?` returns the error.
LocationSendFails ==
    /\ pc = "location_send"
    /\ \E e \in TransportErrors :
          /\ location' = Err(e)
          /\ result' = MatchFetched(FetchLocationFailed(e))
    /\ pc' = "returned"
    /\ UNCHANGED <<reqText, request, locSent, wxSent, weather, clientVars, coordVars>>

\* The location response arrives: the status check.
LocationResponse ==
    /\ pc = "location_send"
    /\ \E status \in Statuses :
          LET checked == LocationStatusCheck(status) IN
          IF checked.st = "err"
          THEN /\ location' = checked
               /\ result' = MatchFetched(FetchLocationFailed(checked.err))
               /\ pc' = "returned"
          ELSE /\ pc' = "location_json"
               /\ UNCHANGED <<location, result>>
    /\ UNCHANGED <<reqText, request, locSent, wxSent, weather, clientVars, coordVars>>

\* The location body arrives: decode it; on success WeatherClient::new(..)
\* .get_current_weather() sends its GET.
LocationBody ==
    /\ pc = "location_json"
    /\ \E b \in 1..Len(LocBodies) :
          LET got == LocationFromBody(LocBodies[b]) IN
          /\ location' = got
          /\ IF got.st = "err"
             THEN /\ result' = MatchFetched(FetchLocationFailed(got.err))
                  /\ pc' = "returned"
                  /\ UNCHANGED wxSent
             ELSE /\ wxSent' = Append(wxSent,
                         WeatherRequest(NewWeatherClient(got.val, request.val.units,
                                                         request.val.api_key)))
                  /\ pc' = "weather_send"
                  /\ UNCHANGED result
    /\ UNCHANGED <<reqText, request, locSent, weather, clientVars, coordVars>>

\* The weather GET does not complete.
WeatherSendFails ==
    /\ pc = "weather_send"
    /\ \E e \in TransportErrors :
          /\ weather' = Err(e)
          /\ result' = MatchFetched(FetchWeatherFailed(location.val, e))
    /\ pc' = "returned"
    /\ UNCHANGED <<reqText, request, location, locSent, wxSent, clientVars, coordVars>>

\* The weather response arrives: the status check.
WeatherResponse ==
    /\ pc = "weather_send"
    /\ \E status \in Statuses :
          LET checked == WeatherStatusCheck(status) IN
          IF checked.st = "err"
          THEN /\ weather' = checked
               /\ result' = MatchFetched(FetchWeatherFailed(location.val, checked.err))
               /\ pc' = "returned"
          ELSE /\ pc' = "weather_json"
               /\ UNCHANGED <<weather, result>>
    /\ UNCHANGED <<reqText, request, location, locSent, wxSent, clientVars, coordVars>>

\* The weather body arrives: decode it, serialize it and return.
WeatherBody ==
    /\ pc = "weather_json"
    /\ \E b \in 1..Len(WxBodies) :
          LET got == WeatherFromBody(WxBodies[b]) IN
          /\ weather' = got
          /\ result' = IF got.st = "err"
                       THEN MatchFetched(FetchWeatherFailed(location.val, got.err))
                       ELSE MatchFetched(FetchSucceeded(location.val, got.val))
    /\ pc' = "returned"
    /\ UNCHANGED <<reqText, request, location, locSent, wxSent, clientVars, coordVars>>

InitBridge ==
    /\ pc = "idle"
    /\ reqText = JNull
    /\ request = None
    /\ location = None
    /\ weather = None
    /\ locSent = << >>
    /\ wxSent = << >>
    /\ result = None
NextBridge ==
    \/ get_weather_data
    \/ LocationSendFails
    \/ LocationResponse
    \/ LocationBody
    \/ WeatherSendFails
    \/ WeatherResponse
    \/ WeatherBody

(***************************************************************************)
(* The resolvers used directly by a Rust caller: one LocationClient, whose *)
(* setters take &mut self and so run only between its calls, and the       *)
(* WeatherClient the caller builds from a resolved Location.               *)
(***************************************************************************)

\* What the server answered a call: nothing yet, no completed exchange, or a
\* status (and, once read, the body: its index in the bodies above).
NoResponse == [kind |-> "none"]

\* set_zip that also clears the country.
set_zip_clearing_country ==
    /\ lcPc = "idle"
    /\ \E zip \in Zips :
          /\ lc' = [lc EXCEPT !.zip = zip, !.country = ""]
          /\ lastSet' = [field |-> "zip", value |-> zip]
    /\ UNCHANGED <<lcPc, lcSent, lcDecoded, lcResp, lcResult, lcPrev,
                   wc, wcPc, wcSent, wcDecoded, wcResp, wcResult, bridgeVars, coordVars>>
set_zip ==
    /\ lcPc = "idle"
    /\ \E zip \in Zips :
          /\ lc' = [lc EXCEPT !.zip = zip]
          /\ lastSet' = [field |-> "zip", value |-> zip]
    /\ UNCHANGED <<lcPc, lcSent, lcDecoded, lcResp, lcResult, lcPrev,
                   wc, wcPc, wcSent, wcDecoded, wcResp, wcResult, bridgeVars, coordVars>>
set_country ==
    /\ lcPc = "idle"
    /\ \E country \in Countries :
          /\ lc' = [lc EXCEPT !.country = country]
          /\ lastSet' = [field |-> "country", value |-> country]
    /\ UNCHANGED <<lcPc, lcSent, lcDecoded, lcResp, lcResult, lcPrev,
                   wc, wcPc, wcSent, wcDecoded, wcResp, wcResult, bridgeVars, coordVars>>
set_api_key ==
    /\ lcPc = "idle"
    /\ \E api_key \in ApiKeys :
          /\ lc' = [lc EXCEPT !.api_key = api_key]
          /\ lastSet' = [field |-> "api_key", value |-> api_key]
    /\ UNCHANGED <<lcPc, lcSent, lcDecoded, lcResp, lcResult, lcPrev,
                   wc, wcPc, wcSent, wcDecoded, wcResp, wcResult, bridgeVars, coordVars>>

\* get_location, to its first await: build the query from the fields and send.
get_location ==
    /\ lcPc = "idle"
    /\ lcSent' = <<LocationRequest(lc)>>
    /\ lcDecoded' = 0
    /\ lcResp' = NoResponse
    /\ lcPrev' = lcResult
    /\ lcResult' = None
    /\ lcPc' = "send"
    /\ UNCHANGED <<lastSet, lc, wc, wcPc, wcSent, wcDecoded, wcResp, wcResult, bridgeVars, coordVars>>
\* `.send().await?` fails
get_location_send_fails ==
    /\ lcPc = "send"
    /\ \E e \in TransportErrors :
          /\ lcResp' = [kind |-> "transport", err |-> e]
          /\ lcResult' = Err(e)
    /\ lcPc' = "idle"
    /\ UNCHANGED <<lastSet, lc, lcSent, lcDecoded, lcPrev,
                   wc, wcPc, wcSent, wcDecoded, wcResp, wcResult, bridgeVars, coordVars>>
\* the response head arrives
get_location_response ==
    /\ lcPc = "send"
    /\ \E status \in Statuses :
          LET checked == LocationStatusCheck(status) IN
          /\ lcResp' = [kind |-> "http", status |-> status, body |-> 0]
          /\ IF checked.st = "err"
             THEN lcResult' = checked /\ lcPc' = "idle"
             ELSE lcPc' = "json" /\ UNCHANGED lcResult
    /\ UNCHANGED <<lastSet, lc, lcSent, lcDecoded, lcPrev,
                   wc, wcPc, wcSent, wcDecoded, wcResp, wcResult, bridgeVars, coordVars>>
\* the body arrives: Ok(response.json().await?)
get_location_body ==
    /\ lcPc = "json"
    /\ \E b \in 1..Len(LocBodies) :
          /\ lcResp' = [lcResp EXCEPT !.body = b]
          /\ lcResult' = LocationFromBody(LocBodies[b])
    /\ lcDecoded' = lcDecoded + 1
    /\ lcPc' = "idle"
    /\ UNCHANGED <<lastSet, lc, lcSent, lcPrev,
                   wc, wcPc, wcSent, wcDecoded, wcResp, wcResult, bridgeVars, coordVars>>

\* The caller builds a WeatherClient from the Location it resolved.
new_weather_client ==
    /\ lcPc = "idle"
    /\ wcPc = "idle"
    /\ lcResult.st = "ok"
    /\ \E units \in Units : wc' = Ok(NewWeatherClient(lcResult.val, units, lc.api_key))
    /\ wcResult' = None
    /\ wcSent' = << >>
    /\ wcDecoded' = 0
    /\ wcResp' = NoResponse
    /\ UNCHANGED <<lastSet, lc, lcPc, lcSent, lcDecoded, lcResp, lcResult, lcPrev, wcPc,
                   bridgeVars, coordVars>>
\* get_current_weather, to its first await
get_current_weather ==
    /\ wcPc = "idle"
    /\ wc.st = "ok"
    /\ wcSent' = <<WeatherRequest(wc.val)>>
    /\ wcDecoded' = 0
    /\ wcResp' = NoResponse
    /\ wcResult' = None
    /\ wcPc' = "send"
    /\ UNCHANGED <<lastSet, lc, lcPc, lcSent, lcDecoded, lcResp, lcResult, lcPrev, wc,
                   bridgeVars, coordVars>>
get_current_weather_send_fails ==
    /\ wcPc = "send"
    /\ \E e \in TransportErrors :
          /\ wcResp' = [kind |-> "transport", err |-> e]
          /\ wcResult' = Err(e)
    /\ wcPc' = "idle"
    /\ UNCHANGED <<lastSet, lc, lcPc, lcSent, lcDecoded, lcResp, lcResult, lcPrev, wc,
                   wcSent, wcDecoded, bridgeVars, coordVars>>
get_current_weather_response ==
    /\ wcPc = "send"
    /\ \E status \in Statuses :
          LET checked == WeatherStatusCheck(status) IN
          /\ wcResp' = [kind |-> "http", status |-> status, body |-> 0]
          /\ IF checked.st = "err"
             THEN wcResult' = checked /\ wcPc' = "idle"
             ELSE wcPc' = "json" /\ UNCHANGED wcResult
    /\ UNCHANGED <<lastSet, lc, lcPc, lcSent, lcDecoded, lcResp, lcResult, lcPrev, wc,
                   wcSent, wcDecoded, bridgeVars, coordVars>>
get_current_weather_body ==
    /\ wcPc = "json"
    /\ \E b \in 1..Len(WxBodies) :
          /\ wcResp' = [wcResp EXCEPT !.body = b]
          /\ wcResult' = WeatherFromBody(WxBodies[b])
    /\ wcDecoded' = wcDecoded + 1
    /\ wcPc' = "idle"
    /\ UNCHANGED <<lastSet, lc, lcPc, lcSent, lcDecoded, lcResp, lcResult, lcPrev, wc,
                   wcSent, bridgeVars, coordVars>>

\* LocationClient::new(zip, country, api_key); no WeatherClient yet.
InitClient ==
    /\ \E zip \in Zips, country \in Countries, api_key \in ApiKeys :
          lc = NewLocationClient(zip, country, api_key)
    /\ lcPc = "idle"
    /\ lcSent = << >>
    /\ lcDecoded = 0
    /\ lcResp = NoResponse
    /\ lcResult = None
    /\ lcPrev = None
    /\ lastSet = [field |-> "none", value |-> ""]
    /\ wc = None
    /\ wcPc = "idle"
    /\ wcSent = << >>
    /\ wcDecoded = 0
    /\ wcResp = NoResponse
    /\ wcResult = None
NextSetters ==
    \/ set_zip
    \/ set_country
    \/ set_api_key
    \/ get_location
    \/ get_location_send_fails
    \/ get_location_response
    \/ get_location_body
\* The clients are not in use.
NoClient ==
    /\ lc = NewLocationClient("", "", "")
    /\ lcPc = "idle"
    /\ lcSent = << >>
    /\ lcDecoded = 0
    /\ lcResp = NoResponse
    /\ lcResult = None
    /\ lcPrev = None
    /\ lastSet = [field |-> "none", value |-> ""]
    /\ wc = None
    /\ wcPc = "idle"
    /\ wcSent = << >>
    /\ wcDecoded = 0
    /\ wcResp = NoResponse
    /\ wcResult = None
NextClient ==
    \/ get_location
    \/ get_location_send_fails
    \/ get_location_response
    \/ get_location_body
    \/ new_weather_client
    \/ get_current_weather
    \/ get_current_weather_send_fails
    \/ get_current_weather_response
    \/ get_current_weather_body

(***************************************************************************)
(* Coord::new on f64 arguments.                                            *)
(***************************************************************************)

LonLimit == 180
LatLimit == 90
\* How far past each limit, in hundredths of a degree, the arguments range.
Margin == 2

\* Coord::new
Coord_new(lon, lat) ==
    IF FLt(lon, Whole(-LonLimit)) \/ FGt(lon, Whole(LonLimit))
    THEN Err("Longitude must be between -180 and 180 degrees")
    ELSE IF FLt(lat, Whole(-LatLimit)) \/ FGt(lat, Whole(LatLimit))
    THEN Err("Latitude must be between -90 and 90 degrees")
    ELSE Ok([lon |-> lon, lat |-> lat])

\* f64 arguments around a limit: the finite values within Margin hundredths of
\* -limit, 0 and +limit, and the three specials.
Around(limit) ==
    {Fin(h) : h \in {c + d : c \in {-limit * Scale, 0, limit * Scale},
                             d \in -Margin..Margin}}
        \cup {NaN, PosInf, NegInf}

CoordNew ==
    /\ coordRes.st = "none"
    /\ coordRes' = Coord_new(coordLon, coordLat)
    /\ UNCHANGED <<coordLon, coordLat, valueVars, bridgeVars, clientVars>>

InitCoord ==
    /\ coordLon \in Around(LonLimit)
    /\ coordLat \in Around(LatLimit)
    /\ coordRes = None
NoCoord ==
    /\ coordLon = Fin(0)
    /\ coordLat = Fin(0)
    /\ coordRes = None
NextCoord == CoordNew


(***************************************************************************)
(* Wind::new.                                                              *)
(***************************************************************************)

DegLimit == 360
\* The ends of i32
I32Max == 2147483647

\* Wind::new with the upper end of the direction range left out.
Wind_new_exclusive(speed, deg, gust) ==
    IF FLt(speed, Fin(0))
    THEN Err("Wind speed must be non-negative")
    ELSE IF deg < 0 \/ deg >= DegLimit
    THEN Err("Wind direction must be between 0 and 360 degrees (inclusive)")
    ELSE IF gust.some /\ FLt(gust.v, Fin(0))
    THEN Err("Wind gust must be non-negative")
    ELSE Ok([speed |-> speed, deg |-> deg, gust |-> gust])
\* Wind::new
Wind_new(speed, deg, gust) ==
    IF FLt(speed, Fin(0))
    THEN Err("Wind speed must be non-negative")
    ELSE IF deg < 0 \/ deg > DegLimit
    THEN Err("Wind direction must be between 0 and 360 degrees (inclusive)")
    ELSE IF gust.some /\ FLt(gust.v, Fin(0))
    THEN Err("Wind gust must be non-negative")
    ELSE Ok([speed |-> speed, deg |-> deg, gust |-> gust])

\* f64 speeds: the finite values within Margin hundredths of 0, a large one
\* and the three specials.
Speeds == {Fin(h) : h \in -Margin..Margin} \cup {Fin(360), NaN, PosInf, NegInf}
\* i32 values within Margin of 0 and of limit, and the two ends of i32
\* (the lower one short by one).
IntsAround(limit) ==
    {c + d : c \in {0, limit}, d \in -Margin..Margin} \cup {-I32Max, I32Max}

WindNew ==
    /\ windRes.st = "none"
    /\ windRes' = Wind_new(windSpeed, windDeg, windGust)
    /\ UNCHANGED <<windSpeed, windDeg, windGust, mainArgs, mainRes, dispTemp, dispUnits,
                   dispRes, coordLon, coordLat, coordRes, bridgeVars, clientVars>>

InitWind ==
    /\ windSpeed \in Speeds
    /\ windDeg \in IntsAround(DegLimit)
    /\ windGust \in {Nothing} \cup {Some(g) : g \in Speeds}
    /\ windRes = None
NoWind ==
    /\ windSpeed = Fin(0)
    /\ windDeg = 0
    /\ windGust = Nothing
    /\ windRes = None
NextWind == WindNew

(***************************************************************************)
(* Main::new.                                                              *)
(***************************************************************************)

\* The fields of Main, which are the parameters of Main::new
MainFields == {"temp", "feels_like", "temp_min", "temp_max", "pressure",
               "humidity", "sea_level", "grnd_level"}

HumidityLimit == 100

\* Main::new with the upper end of the humidity range left out.
Main_new_exclusive(args) ==
    IF args.humidity.some /\ (args.humidity.v < 0 \/ args.humidity.v >= HumidityLimit)
    THEN Err("Humidity must be between 0 and 100 percent")
    ELSE Ok(args)
\* Main::new; args holds the eight parameters by name, and the record
\* returned holds each of them under the same name.
Main_new(args) ==
    IF args.humidity.some /\ (args.humidity.v < 0 \/ args.humidity.v > HumidityLimit)
    THEN Err("Humidity must be between 0 and 100 percent")
    ELSE Ok(args)

\* Option<f64> and Option<i32> arguments that Main::new does not look at
OtherF64s == {Nothing, Some(Fin(2777)), Some(NaN), Some(NegInf)}
OtherI32s == {Nothing, Some(1014), Some(-1)}
MainArguments ==
    [temp : OtherF64s, feels_like : {Nothing, Some(Fin(-5000))},
     temp_min : {Nothing, Some(PosInf)}, temp_max : {Nothing, Some(Fin(0))},
     pressure : OtherI32s,
     humidity : {Nothing} \cup {Some(h) : h \in IntsAround(HumidityLimit)},
     sea_level : {Nothing, Some(-I32Max)}, grnd_level : {Nothing, Some(I32Max)}]

MainNew ==
    /\ mainRes.st = "none"
    /\ mainRes' = Main_new(mainArgs)
    /\ UNCHANGED <<mainArgs, windSpeed, windDeg, windGust, windRes, dispTemp, dispUnits,
                   dispRes, coordLon, coordLat, coordRes, bridgeVars, clientVars>>

InitMain ==
    /\ mainArgs \in MainArguments
    /\ mainRes = None
NoMain ==
    /\ mainArgs = [f \in MainFields |-> Nothing]
    /\ mainRes = None
NextMain == MainNew

(***************************************************************************)
(* The temperature text of detailed_display.                               *)
(***************************************************************************)

\* format!("{:.1}", x): one digit after the point, the sign kept when the
\* value rounds to zero.  The digit dropped decides the rounding except when
\* it is a 5, where the binary value of the f64 decides; Temps and the
\* sample wind speed hold no such value.
OneDecimal(x) ==
    IF x.k = "nan" THEN "NaN"
    ELSE IF x.k = "inf" THEN (IF x.v < 0 THEN "-inf" ELSE "inf")
    ELSE LET tenths == (Abs(x.v) + 5) \div 10
         IN  (IF x.v < 0 THEN "-" ELSE "")
             \o ToString(tenths \div 10) \o "." \o ToString(tenths % 10)

\* Celsius to Fahrenheit, which the source nowhere computes.
Fahrenheit(x) == IF x.k = "fin" THEN Fin((x.v * 9) \div 5 + 32 * Scale) ELSE x
\* get_temperature_display converting the value for "imperial".
get_temperature_display_converting(temp, units) ==
    IF units = "metric" THEN OneDecimal(temp) \o "°C"
    ELSE IF units = "imperial" THEN OneDecimal(Fahrenheit(temp)) \o "°F"
    ELSE OneDecimal(temp) \o "°K"
\* get_temperature_display
get_temperature_display(temp, units) ==
    IF units = "metric" THEN OneDecimal(temp) \o "°C"
    ELSE IF units = "imperial" THEN OneDecimal(temp) \o "°F"
    ELSE OneDecimal(temp) \o "°K"
\* get_speed_display
get_speed_display(speed, units) ==
    IF units = "metric" THEN OneDecimal(speed) \o " m/s"
    ELSE IF units = "imperial" THEN OneDecimal(speed) \o " mph"
    ELSE OneDecimal(speed) \o " m/s"

\* WeatherResponse::detailed_display: the ten arguments of its format!, in
\* order; the text returned is the fixed template with these filled in.
detailed_display(self, units) ==
    LET temp_display ==
            IF self.main.temp.some
            THEN get_temperature_display(self.main.temp.v, units) ELSE ""
        wind_display == get_speed_display(self.wind.speed, units)
        first == Len(self.weather) > 0
    IN  [name |-> self.name,
         lat |-> F64Display(self.coord.lat),
         lon |-> F64Display(self.coord.lon),
         temp_display |-> temp_display,
         wind_display |-> wind_display,
         deg |-> ToString(self.wind.deg),
         clouds |-> ToString(self.clouds.all),
         weather_main |-> IF first THEN self.weather[1].main ELSE "",
         weather_description |-> IF first THEN self.weather[1].description ELSE "",
         weather_icon |-> IF first THEN self.weather[1].icon ELSE ""]

\* The record rendered: the first sample response, decoded, with main.temp
\* as given.
DisplayRecord(temp) == [DecodeWeather(WxBodies[1]).val EXCEPT !.main.temp = temp]

\* Stored temperatures, in hundredths: within Margin of the centres below,
\* less those whose dropped digit is 5, and the three specials.
TempCentres == {-2777, -4, 0, 996, 2777, 30092}
Decided(h) == Abs(h) % 10 # 5
Temps ==
    {Fin(h) : h \in {x \in {c + d : c \in TempCentres, d \in -Margin..Margin} : Decided(x)}}
        \cup {NaN, PosInf, NegInf}
Selectors == Units \cup {"kelvin", ""}

DetailedDisplay ==
    /\ dispRes.st = "none"
    /\ dispRes' = Ok(detailed_display(DisplayRecord(dispTemp), dispUnits))
    /\ UNCHANGED <<dispTemp, dispUnits, mainArgs, mainRes, windSpeed, windDeg, windGust,
                   windRes, coordLon, coordLat, coordRes, bridgeVars, clientVars>>

InitDisplay ==
    /\ dispTemp \in {Nothing} \cup {Some(t) : t \in Temps}
    /\ dispUnits \in Selectors
    /\ dispRes = None
NoDisplay ==
    /\ dispTemp = Nothing
    /\ dispUnits = "metric"
    /\ dispRes = None
NextDisplay == DetailedDisplay

(***************************************************************************)
(* The specifications.                                                     *)
(***************************************************************************)

Init == InitBridge /\ NoClient /\ NoCoord /\ NoWind /\ NoMain /\ NoDisplay
Next == NextBridge
Spec == Init /\ [][Next]_vars

InitClients == InitBridge /\ InitClient /\ NoCoord /\ NoWind /\ NoMain /\ NoDisplay
SpecClient  == InitClients /\ [][NextClient]_vars

SpecSetters == InitClients /\ [][NextSetters]_vars

InitCoords == InitBridge /\ NoClient /\ InitCoord /\ NoWind /\ NoMain /\ NoDisplay
SpecCoord  == InitCoords /\ [][NextCoord]_vars

InitWinds == InitBridge /\ NoClient /\ NoCoord /\ InitWind /\ NoMain /\ NoDisplay
SpecWind  == InitWinds /\ [][NextWind]_vars

InitMains == InitBridge /\ NoClient /\ NoCoord /\ NoWind /\ InitMain /\ NoDisplay
SpecMain  == InitMains /\ [][NextMain]_vars

InitDisplays == InitBridge /\ NoClient /\ NoCoord /\ NoWind /\ NoMain /\ InitDisplay
SpecDisplay  == InitDisplays /\ [][NextDisplay]_vars

(***************************************************************************)
(* The claims about the host-bridge adapter, under Spec.                   *)
(***************************************************************************)

Returned    == pc = "returned"
ParseFailed == ParseRequest(reqText).st = "err"
\* The serialized shape {location, weather, error}
EnvelopeShape(j) ==
    /\ j.t = "obj"
    /\ DOMAIN j.v = {"location", "weather", "error"}
    /\ j.v.location.t = "obj"
    /\ DOMAIN j.v.location.v = {"zip", "name", "lat", "lon", "country"}
    /\ j.v.weather.t = "str"
    /\ j.v.error.t \in {"str", "null"}
\* A Location record as the JSON object it serializes to
LocationJson(l) ==
    JObj([zip |-> JStr(l.zip), name |-> JStr(l.name), lat |-> JFloat(l.lat.v),
          lon |-> JFloat(l.lon.v), country |-> JStr(l.country)])
\* The all-empty/zero placeholder
PlaceholderJson ==
    JObj([zip |-> JStr(""), name |-> JStr(""), lat |-> JFloat(0), lon |-> JFloat(0),
          country |-> JStr("")])
ErrorEnvelope(locationJson, message) ==
    Ok(JObj([location |-> locationJson, weather |-> JStr(""), error |-> JStr(message)]))

C2_NoLookupOnParseFailure ==
    (pc # "idle" /\ ParseFailed) => Len(locSent) = 0 /\ Len(wxSent) = 0
C2_Witness ==
    /\ Returned
    /\ ParseFailed
    /\ reqText.t = "obj"
    /\ Len(locSent) + Len(wxSent) = 0

\* C3: when the request parses and the location lookup fails with detail d,
\* the envelope holds the all-empty/zero location, weather "" and the error
\* "Location error: " followed by d, and no weather lookup is sent.
C3_LocationFailure ==
    (Returned /\ location.st = "err") =>
        /\ result = ErrorEnvelope(PlaceholderJson, "Location error: " \o location.err)
        /\ Len(wxSent) = 0
C3_Witness ==
    /\ Returned
    /\ location.st = "err"
    /\ result.st = "ok"
    /\ result.val.v.error = JStr("Location error: timeout")

\* C4, as stated: when the weather lookup fails with detail d after the
\* location lookup returned L, the error envelope's location is L, its weather
\* "" and its error "Weather error: " followed by d.
C4_ResolvedLocationKept ==
    (Returned /\ weather.st = "err") =>
        result = ErrorEnvelope(LocationJson(location.val), "Weather error: " \o weather.err)
\* C4, amended: in that case the envelope's location is the all-empty/zero
\* placeholder, not L; its weather is "" and its error "Weather error: "
\* followed by d.
C4_WeatherFailure ==
    (Returned /\ weather.st = "err") =>
        result = ErrorEnvelope(PlaceholderJson, "Weather error: " \o weather.err)
C4_Witness ==
    /\ Returned
    /\ location.st = "ok"
    /\ location.val.name = "Chatham"
    /\ weather = Err("API request failed with status: 404 Not Found")
    /\ result.st = "ok"

\* C5: when both lookups succeed, the envelope's location is the record the
\* location lookup returned, its weather a non-empty string, the JSON text of
\* the weather lookup's result, and its error null; and the error is null on
\* no other path.
C5_Success ==
    /\ (Returned /\ weather.st = "ok") =>
          /\ result.st = "ok"
          /\ EnvelopeShape(result.val)
          /\ result.val.v.location = LocationJson(location.val)
          /\ result.val.v.weather = JStr(WeatherResponseText(weather.val))
          /\ Len(result.val.v.weather.v) > 0
          /\ result.val.v.error = JNull
    /\ (Returned /\ result.st = "ok" /\ result.val.v.error = JNull) =>
          location.st = "ok" /\ weather.st = "ok"
C5_Witness ==
    /\ Returned
    /\ location.st = "ok"
    /\ weather.st = "ok"
    /\ weather.val.main.temp = Some(Whole(20))
    /\ result.st = "ok"
    /\ result.val.v.weather.v =
          "{\"coord\":{\"lon\":-82.2,\"lat\":42.44},\"weather\":[],\"base\":\"stations\","
          \o "\"main\":{\"temp\":20.0,\"feels_like\":29.32,\"temp_min\":27.77,"
          \o "\"temp_max\":29.1,\"pressure\":1014,\"humidity\":62,\"sea_level\":1014,"
          \o "\"grnd_level\":993},\"visibility\":10000,"
          \o "\"wind\":{\"speed\":3.6,\"deg\":220,\"gust\":null},\"clouds\":{\"all\":20},"
          \o "\"dt\":1752449935,\"sys\":{\"type\":2,\"id\":267607,\"country\":\"CA\","
          \o "\"sunrise\":1752401008,\"sunset\":1752455116},\"timezone\":-14400,"
          \o "\"id\":5920450,\"name\":\"Chatham-Kent\",\"cod\":200}"
    /\ result.val.v.location = LocationJson(Loc("N7L", "Chatham", Fin(4365), Fin(-7938), "CA"))
    /\ result.val.v.error = JNull

\* C6: at most one location lookup and at most one weather lookup are sent;
\* the weather lookup is sent only once the location lookup has returned a
\* record, with that record's lat and lon and the request's units and
\* credential; a full success sends exactly one of each.
C6_OneLookupEachInOrder ==
    /\ Len(locSent) <= 1
    /\ Len(wxSent) <= 1
    /\ Len(wxSent) = 1 =>
          /\ Len(locSent) = 1
          /\ location.st = "ok"
          /\ wxSent[1].url = "https://api.openweathermap.org/data/2.5/weather"
          /\ wxSent[1].query = << <<"lat", F64Display(location.val.lat)>>,
                                  <<"lon", F64Display(location.val.lon)>>,
                                  <<"units", request.val.units>>,
                                  <<"appid", request.val.api_key>> >>
    /\ (Returned /\ weather.st = "ok") => Len(locSent) = 1 /\ Len(wxSent) = 1
    /\ location.st = "err" => Returned
    /\ weather.st # "none" => Returned
C6_Witness ==
    /\ Returned
    /\ weather.st = "ok"
    /\ Len(locSent) = 1
    /\ wxSent = << [url   |-> WEATHER_API_BASE_URL,
                    query |-> << <<"lat", "34">>, <<"lon", "-118.41">>,
                                 <<"units", "imperial">>, <<"appid", "K2">> >>] >>

(***************************************************************************)
(* The claims about the resolvers, under SpecClient and SpecSetters.       *)
(***************************************************************************)

NonSuccess(resp) == resp.kind = "http" /\ (resp.status < 200 \/ resp.status >= 300)

\* C7: for both resolvers, a response with a non-success status makes the call
\* return an error naming that status; the body is not decoded and no further
\* request is sent.
C7_NonSuccessStatus ==
    /\ NonSuccess(lcResp) =>
          /\ lcPc = "idle"
          /\ lcResult = Err("API request failed with status: " \o StatusText(lcResp.status))
          /\ lcDecoded = 0
          /\ Len(lcSent) = 1
    /\ NonSuccess(wcResp) =>
          /\ wcPc = "idle"
          /\ wcResult = Err("API request failed with status: " \o StatusText(wcResp.status))
          /\ wcDecoded = 0
          /\ Len(wcSent) = 1
C7_Witness ==
    /\ lcResp.kind = "http"
    /\ lcResp.status = 404
    /\ lcResult = Err("API request failed with status: 404 Not Found")
    /\ wcResp = [kind |-> "http", status |-> 500, body |-> 0]
    /\ wcResult = Err("API request failed with status: 500 Internal Server Error")

\* The Geocoordinate shape: an object holding zip, name and country as
\* strings and lat and lon as numbers.
GeocoordinateShape(body) ==
    /\ body.t = "obj"
    /\ {"zip", "name", "lat", "lon", "country"} \subseteq DOMAIN body.v
    /\ \A key \in {"zip", "name", "country"} : body.v[key].t = "str"
    /\ \A key \in {"lat", "lon"} : body.v[key].t \in {"int", "float"}
\* A JSON number's value, in hundredths
NumValue(j) == IF j.t = "int" THEN j.v * Scale ELSE j.v
\* The call the response belongs to has returned, having read body b.
ReadBody(b) == lcPc = "idle" /\ lcResp.kind = "http" /\ lcResp.body = b

\* C8: on a success status with a body of the Geocoordinate shape,
\* get_location returns Ok with a Location whose five fields are the body's
\* values; a call that has returned has returned Ok(record) or Err(message),
\* and a transport failure's message is returned as it is.
C8_LocationDecoded ==
    /\ \A b \in 1..Len(LocBodies) :
          (ReadBody(b) /\ GeocoordinateShape(LocBodies[b])) =>
              /\ lcResult.st = "ok"
              /\ lcResult.val.zip = LocBodies[b].v.zip.v
              /\ lcResult.val.name = LocBodies[b].v.name.v
              /\ lcResult.val.lat = Fin(NumValue(LocBodies[b].v.lat))
              /\ lcResult.val.lon = Fin(NumValue(LocBodies[b].v.lon))
              /\ lcResult.val.country = LocBodies[b].v.country.v
    /\ (lcPc = "idle" /\ lcResp.kind # "none") => lcResult.st \in {"ok", "err"}
    /\ lcResp.kind = "transport" => lcResult = Err(lcResp.err)
C8_Witness ==
    /\ ReadBody(2)
    /\ lcResp.status = 200
    /\ lcResult = Ok(Loc("90210", "Beverly Hills", Fin(3400), Fin(-11841), "US"))

\* What a completed exchange alone makes get_location return.
ResultOfResponse(resp) ==
    CASE resp.kind = "transport" -> Err(resp.err)
      [] NonSuccess(resp) -> Err("API request failed with status: " \o StatusText(resp.status))
      [] OTHER -> IF GeocoordinateShape(LocBodies[resp.body])
                  THEN Ok(Loc(LocBodies[resp.body].v.zip.v, LocBodies[resp.body].v.name.v,
                              Fin(NumValue(LocBodies[resp.body].v.lat)),
                              Fin(NumValue(LocBodies[resp.body].v.lon)),
                              LocBodies[resp.body].v.country.v))
                  ELSE Err("error decoding response body")
LcFields == {"zip", "country", "api_key"}
\* A step that changes the client's fields is one setter's: the field it
\* names now holds its argument, the other two fields and the rest of the
\* client are as before.
SetterFrame ==
    lc' # lc =>
        /\ lastSet'.field \in LcFields
        /\ lc'[lastSet'.field] = lastSet'.value
        /\ \A f \in LcFields \ {lastSet'.field} : lc'[f] = lc[f]
        /\ UNCHANGED <<lcPc, lcSent, lcDecoded, lcResp, lcResult, lcPrev>>

\* C9: the request of a get_location call is built from the postal code,
\* country code and credential most recently set (zip = "{zip},{country}",
\* appid = credential); each setter changes its own field only; and what a
\* call returns is decided by that call's response alone, whatever an earlier
\* call returned.
C9_SettersThenRequest ==
    /\ [](lastSet.field \in LcFields => lc[lastSet.field] = lastSet.value)
    /\ [](lcPc # "idle" =>
            lcSent = << [url   |-> "https://api.openweathermap.org/geo/1.0/zip",
                         query |-> << <<"zip", lc.zip \o "," \o lc.country>>,
                                      <<"appid", lc.api_key>> >>] >>)
    /\ [][SetterFrame]_vars
    /\ []((lcPc = "idle" /\ lcResp.kind # "none") => lcResult = ResultOfResponse(lcResp))
C9_Witness ==
    /\ lcPc = "idle"
    /\ lcPrev.st = "ok"
    /\ lcPrev.val.zip = "N7L"
    /\ lastSet = [field |-> "api_key", value |-> "K2"]
    /\ lcSent = << [url   |-> GEOCODING_API_BASE_URL,
                    query |-> << <<"zip", "90210,US">>, <<"appid", "K2">> >>] >>
    /\ lcResult.st = "ok"
    /\ lcResult.val.zip = "90210"

(***************************************************************************)
(* The claim about Coord::new, under SpecCoord.                            *)
(***************************************************************************)

InRange(x, limit) == x.k = "fin" /\ -limit * Scale <= x.v /\ x.v <= limit * Scale
\* C10: Coord::new(lon, lat) succeeds exactly when lon is in [-180, 180] and
\* lat in [-90, 90], and then holds those lon and lat; for every other pair it
\* fails and returns no record.
C10_CoordNewExact ==
    coordRes.st # "none" =>
        IF InRange(coordLon, 180) /\ InRange(coordLat, 90)
        THEN coordRes = Ok([lon |-> coordLon, lat |-> coordLat])
        ELSE coordRes.st = "err"

(***************************************************************************)
(* The claim about Wind::new, under SpecWind.                              *)
(***************************************************************************)

\* Zero or more, as a real number or +infinity; NaN is neither this nor negative.
NonNegative(x) == x.k \in {"fin", "inf"} /\ x.v >= 0
Negative(x) == x.k \in {"fin", "inf"} /\ x.v < 0
WindCalled == windRes.st # "none"
WindAccepts ==
    /\ NonNegative(windSpeed)
    /\ windDeg \in 0..DegLimit
    /\ ~windGust.some \/ NonNegative(windGust.v)
WindRejects ==
    \/ Negative(windSpeed)
    \/ windDeg < 0
    \/ windDeg > DegLimit
    \/ windGust.some /\ Negative(windGust.v)
\* C11: Wind::new succeeds for every direction from 0 through 360 with a
\* speed of zero or more and a gust that is absent or zero or more, and the
\* record it returns holds exactly the supplied speed, direction and gust;
\* it fails when the speed is negative, the direction is below 0 or above
\* 360, or a present gust is negative.
C11_WindNew ==
    WindCalled =>
        /\ WindAccepts =>
              windRes = Ok([speed |-> windSpeed, deg |-> windDeg, gust |-> windGust])
        /\ WindRejects => windRes.st = "err"
\* Direction 360 with a zero speed and a zero gust was accepted.
C11_Witness ==
    /\ windRes.st = "ok"
    /\ windDeg = DegLimit
    /\ windSpeed = Fin(0)
    /\ windGust = Some(Fin(0))

(***************************************************************************)
(* The claim about Main::new, under SpecMain.                              *)
(***************************************************************************)

MainCalled == mainRes.st # "none"
\* C12: Main::new succeeds for every humidity from 0 through 100 and when the
\* humidity is absent, whatever the other measurements are, and fails for
\* every present humidity below 0 or above 100.
C12_MainNew ==
    MainCalled =>
        IF mainArgs.humidity.some
        THEN IF mainArgs.humidity.v \in 0..HumidityLimit
             THEN mainRes.st = "ok"
             ELSE mainRes.st = "err"
        ELSE mainRes.st = "ok"
\* Humidity 100 was accepted beside a NaN temperature and a negative pressure.
C12_Witness ==
    /\ mainRes.st = "ok"
    /\ mainArgs.humidity = Some(HumidityLimit)
    /\ mainArgs.temp = Some(NaN)
    /\ mainArgs.pressure = Some(-1)

(***************************************************************************)
(* The claim about the temperature text, under SpecDisplay.                *)
(***************************************************************************)

Displayed == dispRes.st = "ok"
Stored(h) == dispTemp = Some(Fin(h))
Rendered == dispRes.val.temp_display
Suffix(units) ==
    IF units = "metric" THEN "°C" ELSE IF units = "imperial" THEN "°F" ELSE "°K"
\* C13, as stated: a stored temperature of 27.77 renders as 27.8°C for
\* metric, 82.0°F for imperial and 27.8°K for standard or any unrecognized
\* selector.
C13_ImperialConverted ==
    Displayed /\ Stored(2777) =>
        Rendered = IF dispUnits = "metric" THEN "27.8°C"
                   ELSE IF dispUnits = "imperial" THEN "82.0°F"
                   ELSE "27.8°K"
\* C13, amended: the text is the stored temperature itself to one decimal,
\* never converted, followed by °C for metric, °F for imperial and °K for
\* every other selector, and is empty when no temperature is stored; 27.77
\* renders as 27.8°C, 27.8°F and 27.8°K.
C13_StoredValueRendered ==
    Displayed =>
        /\ Rendered = IF dispTemp.some
                      THEN OneDecimal(dispTemp.v) \o Suffix(dispUnits) ELSE ""
        /\ Stored(2777) => Rendered = "27.8" \o Suffix(dispUnits)
        /\ Stored(998) => Rendered = "10.0" \o Suffix(dispUnits)
        /\ Stored(-4) => Rendered = "-0.0" \o Suffix(dispUnits)
        /\ Stored(-2776) => Rendered = "-27.8" \o Suffix(dispUnits)
        /\ Stored(30092) => Rendered = "300.9" \o Suffix(dispUnits)
\* 27.77 was rendered for imperial, as 27.8°F.
C13_Witness ==
    /\ Displayed
    /\ Stored(2777)
    /\ dispUnits = "imperial"
    /\ Rendered = "27.8°F"

(***************************************************************************)
(* The claim about the sys record, under SpecClient.                       *)
(***************************************************************************)

\* The weather resolver has read body b of a success-status response.
ReadWeatherBody(b) ==
    wcPc = "idle" /\ wcResp.kind = "http" /\ is_success(wcResp.status) /\ wcResp.body = b
\* The body with a type id and a record id put in its sys record where it
\* has none.
WithSysIds(body) ==
    JObj([body.v EXCEPT
            !.sys = JObj(body.v.sys.v @@ ("type" :> JInt(0)) @@ ("id" :> JInt(0)))])
\* The body's sys record leaves out the type id, the record id or both, and
\* the body is complete otherwise.
SysIdsOmitted(body) ==
    /\ body.t = "obj" /\ Has(body, "sys") /\ body.v.sys.t = "obj"
    /\ ~Has(body.v.sys, "type") \/ ~Has(body.v.sys, "id")
    /\ WeatherResponseShape(WithSysIds(body))
\* C14: a success-status weather response whose sys record omits the type
\* id and/or the record id, and is otherwise complete, is decoded and
\* returned as success, not as a decode error.
C14_SysIdsOptional ==
    \A b \in 1..Len(WxBodies) :
        ReadWeatherBody(b) /\ SysIdsOmitted(WxBodies[b]) => wcResult.st = "ok"

====
